---- MODULE Spec2Model ----
(***************************************************************************)
(* A model of the three validators of infineum_validator_engine:           *)
(*   validator.new.py    the standalone record validator                   *)
(*   validator.py        the warehouse structural validator                *)
(*   file_validation.py  the warehouse validate-and-insert pipeline        *)
(* Text is a sequence of one-character strings, so that splitting,         *)
(* trimming, pattern matching and numeric conversion are computed.         *)
(***************************************************************************)
EXTENDS Integers, Sequences, FiniteSets, TLC

(* ------------------------------ bounds -------------------------------- *)

\* longest generated data line of the single-record inputs
MaxLineLen == 4
\* most data rows of a generated standalone table
MaxRows == 3
\* most rows of a generated CSV file
MaxCsvRows == 2
\* most rows of a generated pipeline dataset
MaxDataRows == 2
\* longest generated argument of check_pattern
MaxValueLen == 3

(* --------------------- validator.new.py: state ------------------------ *)

VARIABLES
  json_data,          \* the parsed JSON configuration
  table_lines,        \* table_data_str.strip().split("\n")
  headers,            \* table_lines[0].split(",")
  table_records,      \* one dict per data line
  vn_errors,          \* main's validation_errors
  vn_row_idx,         \* rows main has validated
  vn_stdout,          \* the lines printed
  vn_pc               \* off, load, raised (ValueError), main, print, done

vnVars ==
  <<json_data, table_lines, headers, table_records, vn_errors, vn_row_idx,
    vn_stdout, vn_pc>>

(* ------------------------ validator.py: state ------------------------- *)

VARIABLES
  template,           \* json.loads(json_template)
  csv_columns,        \* the header of the CSV file
  csv_file,           \* the rows of the CSV file, each a tuple of cells
                      \* in the order of csv_columns
  csv_df,             \* the DataFrame the function holds in csv_df
  snowflake_columns,  \* session.table(table_name).columns
  sv_column_idx,      \* columns the loop of step 3 has finished
  sv_result,          \* what the call printed and returned
  sv_pc               \* off, call, columns, returned, raised (ValueError)

svVars ==
  <<template, csv_columns, csv_file, csv_df, snowflake_columns,
    sv_column_idx, sv_result, sv_pc>>

(* --------------------- file_validation.py: state ---------------------- *)

VARIABLES
  data,               \* the input DataFrame: its columns and its rows
  validation_rules,   \* the JSON validation template
  errors,             \* validate_data's list, as it stood when it ended
  validation_errors,  \* insert_valid_records's validation_errors
  snowpark_table,     \* the rows appended to the warehouse table
  fv_writes,          \* calls of save_as_table
  fv_result,          \* what insert_valid_records returned
  fv_pc               \* off, call, validated, returned, raised (TypeError)

fvVars ==
  <<data, validation_rules, errors, validation_errors, snowpark_table,
    fv_writes, fv_result, fv_pc>>

VARIABLES
  cp_value,           \* check_pattern's value
  cp_field_type,      \* check_pattern's field_type
  cp_return,          \* what the call returned or raised
  cp_pc               \* off, call, returned

cpVars == <<cp_value, cp_field_type, cp_return, cp_pc>>

vars == <<vnVars, svVars, fvVars, cpVars>>

(* ------------------------------- text --------------------------------- *)

Digits == {"0", "1", "2", "3", "4", "5", "6", "7", "8", "9"}

LowerCase ==
  {"a", "b", "c", "d", "e", "f", "g", "h", "i", "j", "k", "l", "m",
   "n", "o", "p", "q", "r", "s", "t", "u", "v", "w", "x", "y", "z"}

UpperCase ==
  {"A", "B", "C", "D", "E", "F", "G", "H", "I", "J", "K", "L", "M",
   "N", "O", "P", "Q", "R", "S", "T", "U", "V", "W", "X", "Y", "Z"}

\* [a-zA-Z0-9]
AlNum == LowerCase \cup UpperCase \cup Digits

\* what str.strip() removes (the blanks a one-line cell can hold)
Whitespace == {" ", "\t"}

Min(a, b) == IF a <= b THEN a ELSE b

RECURSIVE lstrip(_)
lstrip(s) == IF s # <<>> /\ Head(s) \in Whitespace THEN lstrip(Tail(s)) ELSE s

RECURSIVE rstrip(_)
rstrip(s) ==
  IF s # <<>> /\ s[Len(s)] \in Whitespace
  THEN rstrip(SubSeq(s, 1, Len(s) - 1))
  ELSE s

\* str.strip()
strip(s) == rstrip(lstrip(s))

\* str.split(sep): always at least one piece, empty pieces kept
RECURSIVE split(_, _)
split(s, sep) ==
  IF \E i \in 1..Len(s) : s[i] = sep
  THEN LET p == CHOOSE i \in 1..Len(s) :
                  s[i] = sep /\ \A j \in 1..(i - 1) : s[j] # sep
       IN <<SubSeq(s, 1, p - 1)>> \o split(SubSeq(s, p + 1, Len(s)), sep)
  ELSE <<s>>

\* set(list)
set(l) == {l[i] : i \in 1..Len(l)}

\* a dict is the sequence of its <<key, value>> items, in insertion order
Keys(d) == {d[i][1] : i \in 1..Len(d)}

\* d[k] = v: a new key is appended, a known key keeps its place
dict_set(d, k, v) ==
  IF k \in Keys(d)
  THEN [i \in 1..Len(d) |-> IF d[i][1] = k THEN <<k, v>> ELSE d[i]]
  ELSE Append(d, <<k, v>>)

RECURSIVE zip_items(_, _, _)
zip_items(keys, vals, n) ==
  IF n = 0 THEN <<>>
  ELSE dict_set(zip_items(keys, vals, n - 1), keys[n], vals[n])

\* dict(zip(keys, vals)): zip stops at the shorter of the two
dict_zip(keys, vals) == zip_items(keys, vals, Min(Len(keys), Len(vals)))

\* optional key of a JSON object: <<>> when absent, <<v>> when present
get(opt, default) == IF opt = <<>> THEN default ELSE opt[1]

(* ------------------------ numeric conversion -------------------------- *)

DigitVal(c) ==
  CASE c = "0" -> 0 [] c = "1" -> 1 [] c = "2" -> 2 [] c = "3" -> 3
    [] c = "4" -> 4 [] c = "5" -> 5 [] c = "6" -> 6 [] c = "7" -> 7
    [] c = "8" -> 8 [] c = "9" -> 9

RECURSIVE NumOf(_)
NumOf(ds) ==
  IF ds = <<>> THEN 0
  ELSE 10 * NumOf(SubSeq(ds, 1, Len(ds) - 1)) + DigitVal(ds[Len(ds)])

RECURSIVE Pow10(_)
Pow10(n) == IF n = 0 THEN 1 ELSE 10 * Pow10(n - 1)

Without(s, c) == SelectSeq(s, LAMBDA x : x # c)

FloatWords ==
  {<<"n", "a", "n">>, <<"i", "n", "f">>,
   <<"i", "n", "f", "i", "n", "i", "t", "y">>}

\* float(value) for text without exponent, underscore or upper-case words:
\* blanks trimmed, an optional sign, then nan, inf, infinity, or digits with
\* at most one point and at least one digit. ok = FALSE is ValueError.
\* A finite value is (neg ? -num : num) / den, exact for the short texts here.
float(value) ==
  LET t == strip(value)
      signed == t # <<>> /\ Head(t) \in {"-", "+"}
      neg == t # <<>> /\ Head(t) = "-"
      u == IF signed THEN Tail(t) ELSE t
      points == Len(u) - Len(Without(u, "."))
      digits == Without(u, ".")
      p == IF points = 1 THEN CHOOSE i \in 1..Len(u) : u[i] = "." ELSE Len(u)
      frac == IF points = 1 THEN Len(u) - p ELSE 0
  IN  IF u \in FloatWords
      THEN [ok |-> TRUE, kind |-> IF u = <<"n", "a", "n">> THEN "nan" ELSE "inf",
            neg |-> neg, num |-> 0, den |-> 1]
      ELSE IF /\ points <= 1
              /\ digits # <<>>
              /\ \A i \in 1..Len(digits) : digits[i] \in Digits
      THEN [ok |-> TRUE, kind |-> "finite", neg |-> neg,
            num |-> NumOf(digits), den |-> Pow10(frac)]
      ELSE [ok |-> FALSE, kind |-> "error", neg |-> FALSE, num |-> 0, den |-> 1]

\* the comparison with strict bounds: min_val < num_value < max_val
in_range_exclusive(min_val, x, max_val) ==
  /\ x.kind = "finite"
  /\ LET v == IF x.neg THEN 0 - x.num ELSE x.num
     IN  min_val * x.den < v /\ v < max_val * x.den

\* min_val <= num_value <= max_val on floats: false for nan, and for an
\* infinity against finite bounds
in_range(min_val, x, max_val) ==
  /\ x.kind = "finite"
  /\ LET v == IF x.neg THEN 0 - x.num ELSE x.num
     IN  min_val * x.den <= v /\ v <= max_val * x.den

(* ----------------- validator.new.py: field validators ----------------- *)

\* re.match(r'^[a-zA-Z0-9]*$', value)
is_alpha_numeric(value) == \A i \in 1..Len(value) : value[i] \in AlNum

\* re.match(r'^\d+$', value)
is_numeric(value) ==
  Len(value) >= 1 /\ \A i \in 1..Len(value) : value[i] \in Digits

\* re.match(r'^(\d+)(\.\d+)?$', value), then the two digit counts
is_decimal(value, before_decimal, after_decimal) ==
  LET points == Len(value) - Len(Without(value, "."))
      p == IF points >= 1
           THEN CHOOSE i \in 1..Len(value) :
                  value[i] = "." /\ \A j \in 1..(i - 1) : value[j] # "."
           ELSE Len(value) + 1
      int_part == SubSeq(value, 1, p - 1)
      dec_part == SubSeq(value, p, Len(value))
      match == /\ is_numeric(int_part)
               /\ dec_part = <<>> \/ is_numeric(Tail(dec_part))
  IN  /\ match
      /\ Len(int_part) <= before_decimal
      /\ (IF dec_part # <<>> THEN Len(dec_part) - 1 ELSE 0) <= after_decimal

(* ------------------- validator.new.py: the document ------------------- *)

field_definitions == json_data.fields

columns == json_data.columns

\* an error line: the row, the field and which message
Err(row_idx, field, kind) == [row |-> row_idx, field |-> field, kind |-> kind]

\* a printed line that is not an error
Line(kind) == [row |-> 0, field |-> <<>>, kind |-> kind]

(* ----------------- validator.new.py: validate_record ------------------ *)

\* the body of validate_record's loop for one item of the record
field_errors(field, raw, row_idx) ==
  IF field \notin DOMAIN field_definitions
  THEN <<Err(row_idx, field, "unexpected")>>
  ELSE
    LET field_spec == field_definitions[field]
        value == strip(raw)
        required_check ==
          IF field_spec.required /\ value = <<>>
          THEN <<Err(row_idx, field, "required")>> ELSE <<>>
        size_check ==
          IF Len(value) > field_spec.size
          THEN <<Err(row_idx, field, "size")>> ELSE <<>>
        type_check ==
          IF field_spec.type = "alpha_numeric" /\ value # <<>>
             /\ ~is_alpha_numeric(value)
          THEN <<Err(row_idx, field, "alphanumeric")>>
          ELSE IF field_spec.type = "numeric" /\ value # <<>>
                  /\ ~is_numeric(value)
          THEN <<Err(row_idx, field, "numeric")>>
          ELSE IF field_spec.type = "decimal" /\ value # <<>>
          THEN IF ~is_decimal(value,
                              get(field_spec.size_before_decimal, 10),
                              get(field_spec.size_after_decimal, 10))
               THEN <<Err(row_idx, field, "decimal")>> ELSE <<>>
          ELSE <<>>
        range_check ==
          IF field_spec.range # <<>> /\ value # <<>>
          THEN LET num_value == float(value)
               IN  IF ~num_value.ok
                   THEN <<Err(row_idx, field, "not_a_number")>>
                   ELSE IF ~in_range(field_spec.range[1], num_value,
                                     field_spec.range[2])
                   THEN <<Err(row_idx, field, "out_of_range")>>
                   ELSE <<>>
          ELSE <<>>
        zero_check ==
          IF field_spec.zero_check /\ value = <<"0">>
          THEN <<Err(row_idx, field, "zero")>> ELSE <<>>
        allowed_check ==
          IF field_spec.allowed_values # <<>> /\ value # <<>>
             /\ value \notin set(field_spec.allowed_values[1])
          THEN <<Err(row_idx, field, "not_allowed")>> ELSE <<>>
    IN  required_check \o size_check \o type_check \o range_check
          \o zero_check \o allowed_check

RECURSIVE validate_items(_, _, _)
validate_items(record, n, row_idx) ==
  IF n = 0 THEN <<>>
  ELSE validate_items(record, n - 1, row_idx)
         \o field_errors(record[n][1], record[n][2], row_idx)

\* validate_record(record, row_idx): the errors of the record's items, in
\* the record's own order
validate_record(record, row_idx) == validate_items(record, Len(record), row_idx)

(* ----------------- validator.new.py: check_duplicates ----------------- *)

\* the loop of check_duplicates after i records: the set seen and the
\* messages so far
RECURSIVE duplicates_loop(_, _)
duplicates_loop(records, i) ==
  IF i = 0 THEN [seen |-> {}, duplicates |-> <<>>]
  ELSE LET before == duplicates_loop(records, i - 1)
           record_tuple == records[i]
       IN  [seen |-> before.seen \cup {record_tuple},
            duplicates |->
              IF record_tuple \in before.seen
              THEN Append(before.duplicates, Err(i, <<>>, "duplicate"))
              ELSE before.duplicates]

\* a check that compares each record with the one before it only
check_duplicates_adjacent(records) ==
  LET rows == {i \in 2..Len(records) : records[i] = records[i - 1]}
      F[i \in 0..Len(records)] ==
        IF i = 0 THEN <<>>
        ELSE IF i \in rows THEN Append(F[i - 1], Err(i, <<>>, "duplicate"))
        ELSE F[i - 1]
  IN  F[Len(records)]

check_duplicates(records) == duplicates_loop(records, Len(records)).duplicates

(* --------------------- validator.new.py: inputs ----------------------- *)

\* a field rule with none of the optional keys
Rule(type, size, required) ==
  [type |-> type, size |-> size, required |-> required,
   size_before_decimal |-> <<>>, size_after_decimal |-> <<>>,
   range |-> <<>>, zero_check |-> FALSE, allowed_values |-> <<>>]

FIELD1 == <<"F", "I", "E", "L", "D", "1">>
FIELD2 == <<"F", "I", "E", "L", "D", "2">>
FIELD_DEC1 == <<"F", "I", "E", "L", "D", "_", "D", "E", "C", "1">>
FIELD_NUMERIC1 ==
  <<"F", "I", "E", "L", "D", "_", "N", "U", "M", "E", "R", "I", "C", "1">>

\* json_data_str, parsed
FixtureJson ==
  [fields |->
     (FIELD1 :> Rule("alpha_numeric", 500, TRUE))
     @@ (FIELD2 :> [Rule("alpha_numeric", 100, TRUE) EXCEPT
                      !.allowed_values =
                        << << <<"V", "a", "l", "i", "d", "T", "e", "x", "t">>,
                              <<"X", "Y", "Z", "7", "8", "9">> >> >>])
     @@ (FIELD_DEC1 :> [Rule("decimal", 21, FALSE) EXCEPT
                          !.size_before_decimal = <<10>>,
                          !.size_after_decimal = <<10>>,
                          !.range = <<0, 1000>>])
     @@ (FIELD_NUMERIC1 :> [Rule("numeric", 21, FALSE) EXCEPT
                              !.zero_check = TRUE]),
   duplicate_field_check |-> TRUE,
   columns |-> <<FIELD1, FIELD2, FIELD_DEC1, FIELD_NUMERIC1>>]

\* table_data_str.strip().split("\n")
FixtureLines ==
  << <<"F", "I", "E", "L", "D", "1", ",", "F", "I", "E", "L", "D", "2", ",",
       "F", "I", "E", "L", "D", "_", "D", "E", "C", "1", ",", "F", "I", "E",
       "L", "D", "_", "N", "U", "M", "E", "R", "I", "C", "1">>,
     <<"A", "B", "C", "1", "2", "3", ",", "X", "Y", "Z", "7", "8", "9", ",",
       "1", "2", "3", ".", "4", "5", ",", "9", "8", "7", "6", "5", "4", "3",
       "2", "1", "0">>,
     <<"A", "B", "C", "1", "2", "3", ",", "X", "Y", "Z", "7", "8", "9", ",",
       "1", "2", "3", ".", "4", "5", ",", "9", "8", "7", "6", "5", "4", "3",
       "2", "1", "0">>,
     <<"L", "O", "N", "G", "_", "T", "E", "X", "T", "_", "E", "X", "C", "E",
       "E", "D", "I", "N", "G", "_", "L", "I", "M", "I", "T", ",", "V", "a",
       "l", "i", "d", "T", "e", "x", "t", ",", "1", "2", ".", "3", "4", ",",
       "5", "6", "7", "8">>,
     <<",", ",", "4", "5", "6", ".", "7", "8", ",", "9", "0">>,
     <<"V", "a", "l", "u", "e", "1", "2", "3", ",", "I", "n", "v", "a", "l",
       "i", "d", "V", "a", "l", "u", "e", ",", "1", "5", "0", "0", ".", "9",
       "9", ",", "0">> >>

\* the range test values of the specification: the fixture's rules with
\* FIELD_DEC1 at 1000, 1000.01 and abc
RangeLines ==
  << FixtureLines[1],
     <<"A", ",", "X", "Y", "Z", "7", "8", "9", ",", "1", "0", "0", "0", ",", "1">>,
     <<"A", ",", "X", "Y", "Z", "7", "8", "9", ",", "1", "0", "0", "0", ".",
       "0", "1", ",", "1">>,
     <<"A", ",", "X", "Y", "Z", "7", "8", "9", ",", "a", "b", "c", ",", "1">>,
     <<"A", ",", "X", "Y", "Z", "7", "8", "9", ",", "n", "a", "n", ",", "1">>,
     <<"A", ",", "X", "Y", "Z", "7", "8", "9", ",", "-", "i", "n", "f", ",", "1">> >>

\* small rule schemas over the fields A and B
SmallSchemas ==
  { [fields |->
       (<<"A">> :> Rule("alpha_numeric", 2, TRUE))
       @@ (<<"B">> :> [Rule("decimal", 3, FALSE) EXCEPT
                         !.size_before_decimal = <<1>>,
                         !.size_after_decimal = <<1>>,
                         !.range = <<0, 10>>]),
     duplicate_field_check |-> TRUE,
     columns |-> << <<"A">>, <<"B">> >>],
    [fields |->
       (<<"A">> :> [Rule("numeric", 3, TRUE) EXCEPT
                      !.zero_check = TRUE, !.range = <<1, 10>>])
       @@ (<<"B">> :> [Rule("alpha_numeric", 1, FALSE) EXCEPT
                         !.allowed_values = << << <<"a">> >> >>]),
     duplicate_field_check |-> FALSE,
     columns |-> << <<"B">>, <<"A">> >>],
    [fields |->
       (<<"A">> :> Rule("decimal", 4, TRUE))
       @@ (<<"B">> :> [Rule("alpha_numeric", 2, TRUE) EXCEPT
                         !.range = <<0, 1>>]),
     duplicate_field_check |-> TRUE,
     columns |-> << <<"A">>, <<"B">> >>],
    [fields |-> (<<"A">> :> Rule("alpha_numeric", 3, TRUE)),
     duplicate_field_check |-> TRUE,
     columns |-> << <<"A">>, <<"B">> >>],
    [fields |-> (<<"A">> :> [Rule("numeric", 2, TRUE) EXCEPT
                              !.range = <<0, 10>>]),
     duplicate_field_check |-> FALSE,
     columns |-> << <<"A">> >>] }

\* the characters of a generated data line
LineChars == {"a", "0", "1", ".", ",", " ", "-"}

\* every text of at most n characters
Texts(chars, n) == UNION {[1..k -> chars] : k \in 0..n}

\* header lines: in order, reversed, doubled, short, with a stray name
HeaderLines ==
  { <<"A", ",", "B">>, <<"B", ",", "A">>, <<"A", ",", "B", ",", "A">>,
    <<"A">>, <<"A", ",", "C">> }

\* data lines of the generated tables
DataLines ==
  { <<"a", ",", "1">>, <<" ", "a", ",", "1">>, <<>>, <<"a">>,
    <<"a", "-", ",", "0">>, <<"1", ",", "1", "1">> }

\* the line that closes a single-record table
ClosingLine == <<"a", ",", "1">>

\* what table_data_str.strip() leaves: no blank before the first line's
\* text and none after the last line's
WellStripped(lines) ==
  /\ Len(lines) >= 1
  /\ lines[1] = <<>> \/ Head(lines[1]) \notin Whitespace
  /\ LET last == lines[Len(lines)]
     IN  IF Len(lines) = 1 THEN rstrip(last) = last
         ELSE last # <<>> /\ rstrip(last) = last

\* the header line that lists json_data's columns
join_columns(cols) ==
  IF Len(cols) = 1 THEN cols[1] ELSE cols[1] \o <<",">> \o cols[2]

(* ------------------ validator.new.py: module and main ----------------- *)

vn_off ==
  /\ json_data = [fields |-> <<>>, columns |-> <<>>,
                  duplicate_field_check |-> FALSE]
  /\ table_lines = <<>>
  /\ headers = <<>>
  /\ table_records = <<>>
  /\ vn_errors = <<>>
  /\ vn_row_idx = 0
  /\ vn_stdout = <<>>
  /\ vn_pc = "off"

\* the script as it starts: the two embedded texts, nothing parsed yet
vn_Init ==
  /\ \/ json_data = FixtureJson /\ table_lines \in {FixtureLines, RangeLines}
     \/ /\ json_data \in SmallSchemas
        /\ \E line \in Texts(LineChars, MaxLineLen) :
             table_lines = <<join_columns(columns), line, ClosingLine>>
     \/ /\ json_data \in SmallSchemas
        /\ \E h \in HeaderLines, n \in 0..MaxRows :
             \E rows \in [1..n -> DataLines] :
               /\ table_lines = <<h>> \o rows
               /\ WellStripped(table_lines)
  /\ headers = <<>>
  /\ table_records = <<>>
  /\ vn_errors = <<>>
  /\ vn_row_idx = 0
  /\ vn_stdout = <<>>
  /\ vn_pc = "load"

\* lines 55-60: the header is split and compared with the columns as sets;
\* a difference raises ValueError and the script ends
load_raise ==
  /\ UNCHANGED <<svVars, fvVars, cpVars>>
  /\ vn_pc = "load"
  /\ headers' = split(table_lines[1], ",")
  /\ set(headers') # set(columns)
  /\ vn_pc' = "raised"
  /\ UNCHANGED <<json_data, table_lines, table_records, vn_errors,
                 vn_row_idx, vn_stdout>>

\* lines 55-63: the header matches and each data line becomes a dict
load_records ==
  /\ UNCHANGED <<svVars, fvVars, cpVars>>
  /\ vn_pc = "load"
  /\ headers' = split(table_lines[1], ",")
  /\ set(headers') = set(columns)
  /\ table_records' =
       [i \in 1..(Len(table_lines) - 1) |->
          dict_zip(headers', split(table_lines[i + 1], ","))]
  /\ vn_pc' = "main"
  /\ UNCHANGED <<json_data, table_lines, vn_errors, vn_row_idx, vn_stdout>>

\* main, lines 142-143: one turn of the loop over table_records
main_validate ==
  /\ UNCHANGED <<svVars, fvVars, cpVars>>
  /\ vn_pc = "main"
  /\ vn_row_idx < Len(table_records)
  /\ vn_row_idx' = vn_row_idx + 1
  /\ vn_errors' =
       vn_errors \o validate_record(table_records[vn_row_idx'], vn_row_idx')
  /\ UNCHANGED <<json_data, table_lines, headers, table_records, vn_stdout,
                 vn_pc>>

\* main running check_duplicates whatever duplicate_field_check says
main_duplicates_always ==
  /\ UNCHANGED <<svVars, fvVars, cpVars>>
  /\ vn_pc = "main"
  /\ vn_row_idx = Len(table_records)
  /\ vn_errors' = vn_errors \o check_duplicates(table_records)
  /\ vn_pc' = "print"
  /\ UNCHANGED <<json_data, table_lines, headers, table_records, vn_row_idx,
                 vn_stdout>>

\* main, lines 146-147: after the loop, the duplicate messages when enabled
main_duplicates ==
  /\ UNCHANGED <<svVars, fvVars, cpVars>>
  /\ vn_pc = "main"
  /\ vn_row_idx = Len(table_records)
  /\ vn_errors' =
       IF json_data.duplicate_field_check
       THEN vn_errors \o check_duplicates(table_records)
       ELSE vn_errors
  /\ vn_pc' = "print"
  /\ UNCHANGED <<json_data, table_lines, headers, table_records, vn_row_idx,
                 vn_stdout>>

\* main, lines 150-155: the report
main_print ==
  /\ UNCHANGED <<svVars, fvVars, cpVars>>
  /\ vn_pc = "print"
  /\ vn_stdout' =
       IF vn_errors # <<>>
       THEN <<Line("Validation Errors:")>> \o vn_errors
       ELSE <<Line("Table data is valid according to JSON specifications.")>>
  /\ vn_pc' = "done"
  /\ UNCHANGED <<json_data, table_lines, headers, table_records, vn_errors,
                 vn_row_idx>>

vn_Next ==
  \/ load_raise
  \/ load_records
  \/ main_validate
  \/ main_duplicates
  \/ main_print

(* ==================== validator.py: structural validator ============== *)

\* a cell of a DataFrame: SQL NULL, or text
Null == [null |-> TRUE, text |-> <<>>]
Text(s) == [null |-> FALSE, text |-> s]

expected_columns == template.columns

\* the place of a column in the CSV header
IndexOf(column) == CHOOSE k \in 1..Len(csv_columns) : csv_columns[k] = column

\* col(column) evaluated on a row
col(column, row) == row[IndexOf(column)]

\* df.filter(pred), pred given as the rows on which the SQL predicate is
\* TRUE (a predicate over NULL is NULL, and the row is dropped)
filter(df, pred) == SelectSeq(df, LAMBDA row : row \in pred)

\* df.count()
count(df) == Len(df)

\* value RLIKE '^[a-zA-Z0-9]*$'
rlike_alpha_numeric(text) == \A i \in 1..Len(text) : text[i] \in AlNum

\* value RLIKE '^[0-9]{0,b}(\.[0-9]{0,a})?$'
rlike_decimal(text, size_before_decimal, size_after_decimal) ==
  LET AllDigits(t) == \A i \in 1..Len(t) : t[i] \in Digits
  IN  \/ AllDigits(text) /\ Len(text) <= size_before_decimal
      \/ \E p \in 1..Len(text) :
           /\ text[p] = "."
           /\ AllDigits(SubSeq(text, 1, p - 1))
           /\ p - 1 <= size_before_decimal
           /\ AllDigits(SubSeq(text, p + 1, Len(text)))
           /\ Len(text) - p <= size_after_decimal

\* Step 3 for one column, on the DataFrame df: the message of the check
\* that fails ("" when none does) and the DataFrame csv_df names afterwards
check_column(column, df) ==
  IF column \notin DOMAIN template.fields
  THEN [failed |-> "not found in the template", df |-> df]
  ELSE IF column \notin set(csv_columns)
  THEN [failed |-> "Missing column", df |-> df]
  ELSE
    LET field == template.fields[column]
        column_size == field.size
        value(row) == col(column, row)
        \* line 50: csv_df is reassigned to its rows without NULL here
        not_null == filter(df, {row \in set(df) : ~value(row).null})
        df1 == IF field.type = "alpha_numeric" THEN not_null ELSE df
        invalid_alpha_numeric ==
          count(filter(df1, {row \in set(df1) :
                  ~value(row).null /\ ~rlike_alpha_numeric(value(row).text)}))
        invalid_decimal ==
          count(filter(df1, {row \in set(df1) :
                  /\ ~value(row).null
                  /\ ~rlike_decimal(value(row).text,
                                    get(field.size_before_decimal, 0),
                                    get(field.size_after_decimal, 0))}))
        invalid_size ==
          count(filter(df1, {row \in set(df1) :
                  ~value(row).null /\ Len(value(row).text) > column_size}))
        null_count == count(filter(df1, {row \in set(df1) : value(row).null}))
        type_failed ==
          IF field.type = "alpha_numeric"
          THEN IF invalid_alpha_numeric > 0
               THEN "invalid alpha_numeric values"
               ELSE IF invalid_size > 0 THEN "exceeds the size limit" ELSE ""
          ELSE IF field.type = "decimal"
          THEN IF invalid_decimal > 0
               THEN "does not match decimal format"
               ELSE IF invalid_size > 0 THEN "exceeds the size limit" ELSE ""
          ELSE ""
    IN  [failed |->
           IF type_failed # "" THEN type_failed
           ELSE IF field.required /\ null_count > 0 THEN "null values"
           ELSE "",
         df |-> df1]

\* df.group_by(*csv_columns).count().filter(col("count") > 1).count():
\* the groups of equal rows (NULL groups with NULL) that hold two or more
duplicate_count(df) ==
  Cardinality({r \in set(df) :
                 Cardinality({i \in 1..Len(df) : df[i] = r}) > 1})

sv_off ==
  /\ template = [fields |-> <<>>, columns |-> <<>>,
                 duplicate_field_check |-> FALSE]
  /\ csv_columns = <<>>
  /\ csv_file = <<>>
  /\ csv_df = <<>>
  /\ snowflake_columns = <<>>
  /\ sv_column_idx = 0
  /\ sv_result = [returned |-> FALSE, message |-> ""]
  /\ sv_pc = "off"

\* a rule of the structural validator's template
SvRule(type, required, sizes) ==
  [Rule(type, 3, required) EXCEPT
     !.size_before_decimal = sizes, !.size_after_decimal = sizes]

\* the rules a generated template gives column A
SvRulesA ==
  {SvRule(t, r, <<1>>) : t \in {"alpha_numeric", "decimal", "numeric"},
                         r \in BOOLEAN}
    \cup {SvRule("decimal", FALSE, <<>>)}

\* the rules a generated template gives column B
SvRulesB ==
  {SvRule("alpha_numeric", FALSE, <<1>>), SvRule("decimal", TRUE, <<1>>)}

\* the cells of a generated CSV file: NULL, text that is alphanumeric and
\* no decimal, a decimal that is not alphanumeric, and text over the size
SvValues ==
  {Null, Text(<<"a">>), Text(<<"1", ".", "5">>), Text(<<"a", "b", "c", "d">>)}

\* the templates of the generated calls
SvTemplates ==
  {[fields |-> (<<"A">> :> ra) @@ (<<"B">> :> rb),
    columns |-> cols, duplicate_field_check |-> dup] :
     cols \in { << <<"A">> >>, << <<"A">>, <<"B">> >>, << <<"B">>, <<"A">> >> },
     ra \in SvRulesA, rb \in SvRulesB, dup \in BOOLEAN}
  \cup
  {[fields |-> (<<"A">> :> SvRule("numeric", TRUE, <<1>>)),
    columns |-> cols, duplicate_field_check |-> TRUE] :
     cols \in { <<>>, << <<"A">>, <<"B">> >>, << <<"A">>, <<"C">> >> }}

\* the arguments of a call: the template, the file, the table
sv_Init ==
  /\ template \in SvTemplates
  /\ csv_columns \in { << <<"A">> >>, << <<"A">>, <<"B">> >> }
  /\ \E n \in 0..MaxCsvRows :
       csv_file \in [1..n -> [1..Len(csv_columns) -> SvValues]]
  /\ csv_df = <<>>
  /\ snowflake_columns \in {csv_columns, << <<"A">>, <<"Z">> >>}
  /\ sv_column_idx = 0
  /\ sv_result = [returned |-> FALSE, message |-> ""]
  /\ sv_pc = "call"

sv_return(value, message) ==
  /\ sv_result' = [returned |-> value, message |-> message]
  /\ sv_pc' = "returned"

\* lines 17-18: an empty columns list raises ValueError
sv_raise ==
  /\ UNCHANGED <<vnVars, fvVars, cpVars>>
  /\ sv_pc = "call"
  /\ expected_columns = <<>>
  /\ sv_pc' = "raised"
  /\ UNCHANGED <<template, csv_columns, csv_file, csv_df, snowflake_columns,
                 sv_column_idx, sv_result>>

\* the column comparison made on the lists, order included
sv_columns_mismatch_ordered ==
  /\ UNCHANGED <<vnVars, fvVars, cpVars>>
  /\ sv_pc = "call"
  /\ expected_columns # <<>>
  /\ expected_columns # csv_columns
  /\ csv_df' = csv_file
  /\ sv_return(FALSE, "do not match expected columns")
  /\ UNCHANGED <<template, csv_columns, csv_file, snowflake_columns,
                 sv_column_idx>>

\* lines 21-29: the CSV is read; a column set that differs from the
\* template's returns False
sv_columns_mismatch ==
  /\ UNCHANGED <<vnVars, fvVars, cpVars>>
  /\ sv_pc = "call"
  /\ expected_columns # <<>>
  /\ set(expected_columns) # set(csv_columns)
  /\ csv_df' = csv_file
  /\ sv_return(FALSE, "do not match expected columns")
  /\ UNCHANGED <<template, csv_columns, csv_file, snowflake_columns,
                 sv_column_idx>>

\* lines 21-27: the CSV is read and its column set is the template's
sv_columns_match ==
  /\ UNCHANGED <<vnVars, fvVars, cpVars>>
  /\ sv_pc = "call"
  /\ expected_columns # <<>>
  /\ set(expected_columns) = set(csv_columns)
  /\ csv_df' = csv_file
  /\ sv_pc' = "columns"
  /\ UNCHANGED <<template, csv_columns, csv_file, snowflake_columns,
                 sv_column_idx, sv_result>>

\* lines 32-80: one turn of the loop over expected_columns
sv_check_column ==
  /\ UNCHANGED <<vnVars, fvVars, cpVars>>
  /\ sv_pc = "columns"
  /\ sv_column_idx < Len(expected_columns)
  /\ LET checked == check_column(expected_columns[sv_column_idx + 1], csv_df)
     IN  /\ csv_df' = checked.df
         /\ sv_column_idx' = sv_column_idx + 1
         /\ IF checked.failed # ""
            THEN sv_return(FALSE, checked.failed)
            ELSE UNCHANGED <<sv_result, sv_pc>>
  /\ UNCHANGED <<template, csv_columns, csv_file, snowflake_columns>>

\* lines 83-100: after the loop, the duplicate check, the comparison with
\* the table's columns, and the verdict
sv_finish ==
  /\ UNCHANGED <<vnVars, fvVars, cpVars>>
  /\ sv_pc = "columns"
  /\ sv_column_idx = Len(expected_columns)
  /\ IF template.duplicate_field_check /\ duplicate_count(csv_df) > 0
     THEN sv_return(FALSE, "Duplicate rows found")
     ELSE IF set(csv_columns) # set(snowflake_columns)
     THEN sv_return(FALSE, "Snowflake table columns do not match")
     ELSE sv_return(TRUE, "valid")
  /\ UNCHANGED <<template, csv_columns, csv_file, csv_df, snowflake_columns,
                 sv_column_idx>>

sv_Next ==
  \/ sv_raise
  \/ sv_columns_mismatch
  \/ sv_columns_match
  \/ sv_check_column
  \/ sv_finish


(* ================= file_validation.py: insert pipeline ================ *)

\* a value of a collected Row: None, or a str, an int or a float, each
\* with its str() text
PyNone == [kind |-> "NoneType", text |-> <<"N", "o", "n", "e">>]
PyStr(s) == [kind |-> "str", text |-> s]
PyInt(s) == [kind |-> "int", text |-> s]
PyFloat(s) == [kind |-> "float", text |-> s]

\* str(value)
str(value) == value.text

\* value == 0: an int or a float that is zero, never a str
equals_zero(value) ==
  \/ value.kind = "int" /\ value.text \in {<<"0">>}
  \/ value.kind = "float"
       /\ value.text \in {<<"0", ".", "0">>, <<"-", "0", ".", "0">>}

\* re.match(patterns.get(field_type, ''), text) on a str: the three
\* patterns, and the empty pattern of any other type, which matches at the
\* start of every text
pattern_matches(text, field_type) ==
  LET AllDigits(t) == \A i \in 1..Len(t) : t[i] \in Digits
  IN  IF field_type = "alpha_numeric"
      THEN Len(text) >= 1 /\ \A i \in 1..Len(text) : text[i] \in AlNum
      ELSE IF field_type = "numeric"
      THEN Len(text) >= 1 /\ AllDigits(text)
      ELSE IF field_type = "decimal"
      THEN \/ AllDigits(text) /\ Len(text) \in 1..10
           \/ \E p \in 1..Len(text) :
                /\ text[p] = "."
                /\ AllDigits(SubSeq(text, 1, p - 1))
                /\ p - 1 \in 1..10
                /\ AllDigits(SubSeq(text, p + 1, Len(text)))
                /\ Len(text) - p \in 1..10
      ELSE TRUE

\* check_pattern(value, field_type): re.match raises TypeError on a value
\* that is no str
check_pattern(value, field_type) ==
  IF value.kind # "str"
  THEN [raised |-> TRUE, matched |-> FALSE]
  ELSE [raised |-> FALSE, matched |-> pattern_matches(value.text, field_type)]

\* an error string of validate_data: the field and which message
FieldErr(field, kind) == [field |-> field, kind |-> kind]

\* line 45
required_fails(value, field_rule) ==
  field_rule.required
    /\ (value.kind = "NoneType" \/ value = PyStr(<<>>))

\* line 49
size_fails(value, field_rule) ==
  field_rule.type = "alpha_numeric"
    /\ Len(str(value)) > get(field_rule.size, 0)

\* line 57
zero_fails(value, field_rule) ==
  field_rule.type = "numeric" /\ equals_zero(value)

\* lines 61-76: the digits before and after the point of a float
decimal_errors(field, value, field_rule) ==
  IF field_rule.type = "decimal" /\ value.kind = "float"
  THEN LET value_str == str(value)
           parts == split(value_str, ".")
           before_decimal == parts[1]
           after_decimal == IF Len(parts) > 1 THEN parts[2] ELSE <<>>
       IN  (IF Len(before_decimal) > get(field_rule.size_before_decimal, 0)
            THEN <<FieldErr(field, "digits before decimal")>> ELSE <<>>)
           \o
           (IF Len(after_decimal) > get(field_rule.size_after_decimal, 0)
            THEN <<FieldErr(field, "digits after decimal")>> ELSE <<>>)
  ELSE <<>>

\* lines 42-76 for one field of one row: the errors appended, and whether
\* check_pattern raised on the way
check_field(field, field_rule, value) ==
  LET before_pattern ==
        (IF required_fails(value, field_rule)
         THEN <<FieldErr(field, "required")>> ELSE <<>>)
        \o
        (IF size_fails(value, field_rule)
         THEN <<FieldErr(field, "size")>> ELSE <<>>)
      pattern == check_pattern(value, field_rule.type)
  IN  IF pattern.raised
      THEN [raised |-> TRUE, errors |-> before_pattern]
      ELSE [raised |-> FALSE,
            errors |->
              before_pattern
              \o (IF ~pattern.matched
                  THEN <<FieldErr(field, "pattern")>> ELSE <<>>)
              \o (IF zero_fails(value, field_rule)
                  THEN <<FieldErr(field, "zero")>> ELSE <<>>)
              \o decimal_errors(field, value, field_rule)]

\* row[field]
row_value(row, field) ==
  row[CHOOSE k \in 1..Len(data.columns) : data.columns[k] = field]

\* the loop of line 40 over the first n items of validation_rules['fields']
RECURSIVE check_fields(_, _)
check_fields(row, n) ==
  IF n = 0 THEN [raised |-> FALSE, errors |-> <<>>]
  ELSE LET before == check_fields(row, n - 1)
           field == validation_rules.fields[n][1]
           field_rule == validation_rules.fields[n][2]
       IN  IF before.raised \/ field \notin set(data.columns)
           THEN before
           ELSE LET this == check_field(field, field_rule,
                                        row_value(row, field))
                IN  [raised |-> this.raised,
                     errors |-> before.errors \o this.errors]

\* the loop of line 39 over the first n rows of data.collect()
RECURSIVE check_rows(_)
check_rows(n) ==
  IF n = 0 THEN [raised |-> FALSE, errors |-> <<>>]
  ELSE LET before == check_rows(n - 1)
       IN  IF before.raised THEN before
           ELSE LET this == check_fields(data.rows[n],
                                         Len(validation_rules.fields))
                IN  [raised |-> this.raised,
                     errors |-> before.errors \o this.errors]

\* validate_data(session, data, validation_rules, snowpark_table). The
\* derived _duplicate columns of lines 31-36 are added to the function's own
\* copy of data and are read by no check.
validate_data == check_rows(Len(data.rows))

fv_off ==
  /\ data = [columns |-> <<>>, rows |-> <<>>]
  /\ validation_rules = [fields |-> <<>>, columns |-> <<>>,
                         duplicate_field_check |-> FALSE]
  /\ errors = <<>>
  /\ validation_errors = <<>>
  /\ snowpark_table = <<>>
  /\ fv_writes = 0
  /\ fv_result = [kind |-> "none", errors |-> <<>>, inserted |-> 0]
  /\ fv_pc = "off"

\* a field rule of the pipeline's template
FvRule(type, required, size) ==
  [type |-> type, required |-> required, size |-> size,
   size_before_decimal |-> <<1>>, size_after_decimal |-> <<1>>]

\* the values of a generated dataset's column F
FvValues ==
  {PyNone, PyStr(<<>>), PyStr(<<"a">>), PyStr(<<"a", "b", "c">>),
   PyStr(<<"7">>), PyInt(<<"0">>), PyInt(<<"7">>),
   PyFloat(<<"0", ".", "0">>), PyFloat(<<"1", ".", "2", "5">>)}

\* the values of a generated dataset's column G
FvValuesG == {PyNone, PyStr(<<"a">>)}

\* the arguments of insert_valid_records
fv_Init ==
  /\ \E t \in {"alpha_numeric", "numeric", "decimal", "date"},
        r \in BOOLEAN, dup \in BOOLEAN :
       validation_rules =
         [fields |-> << <<(<<"F">>), FvRule(t, r, <<2>>)>>,
                        <<(<<"G">>), FvRule("alpha_numeric", TRUE, <<>>)>> >>,
          columns |-> << <<"F">>, <<"G">> >>,
          duplicate_field_check |-> dup]
  /\ \E n \in 0..MaxDataRows :
       \/ /\ data \in [columns : { << <<"F">> >> },
                       rows : [1..n -> [1..1 -> FvValues]]]
       \/ /\ data \in [columns : { << <<"F">>, <<"G">> >> },
                       rows : [1..n -> {<<f, g>> : f \in FvValues,
                                                   g \in FvValuesG}]]
  /\ errors = <<>>
  /\ validation_errors = <<>>
  /\ snowpark_table = <<>>
  /\ fv_writes = 0
  /\ fv_result = [kind |-> "none", errors |-> <<>>, inserted |-> 0]
  /\ fv_pc = "call"

\* line 83, validate_data raising: the TypeError leaves insert_valid_records
validate_data_raises ==
  /\ UNCHANGED <<vnVars, svVars, cpVars>>
  /\ fv_pc = "call"
  /\ validate_data.raised
  /\ errors' = validate_data.errors
  /\ fv_pc' = "raised"
  /\ UNCHANGED <<data, validation_rules, validation_errors, snowpark_table,
                 fv_writes, fv_result>>

\* line 83, validate_data returning its list
validate_data_returns ==
  /\ UNCHANGED <<vnVars, svVars, cpVars>>
  /\ fv_pc = "call"
  /\ ~validate_data.raised
  /\ errors' = validate_data.errors
  /\ validation_errors' = validate_data.errors
  /\ fv_pc' = "validated"
  /\ UNCHANGED <<data, validation_rules, snowpark_table, fv_writes,
                 fv_result>>

\* lines 85-86
return_errors ==
  /\ UNCHANGED <<vnVars, svVars, cpVars>>
  /\ fv_pc = "validated"
  /\ validation_errors # <<>>
  /\ fv_result' = [kind |-> "errors", errors |-> validation_errors,
                   inserted |-> 0]
  /\ fv_pc' = "returned"
  /\ UNCHANGED <<data, validation_rules, errors, validation_errors,
                 snowpark_table, fv_writes>>

\* lines 89-90: the append, then the success string with len(data.collect())
insert_records ==
  /\ UNCHANGED <<vnVars, svVars, cpVars>>
  /\ fv_pc = "validated"
  /\ validation_errors = <<>>
  /\ snowpark_table' = snowpark_table \o data.rows
  /\ fv_writes' = fv_writes + 1
  /\ fv_result' = [kind |-> "success", errors |-> <<>>,
                   inserted |-> Len(data.rows)]
  /\ fv_pc' = "returned"
  /\ UNCHANGED <<data, validation_rules, errors, validation_errors>>

fv_Next ==
  \/ validate_data_raises
  \/ validate_data_returns
  \/ return_errors
  \/ insert_records

(* ------------------ file_validation.py: check_pattern ----------------- *)

cp_off ==
  /\ cp_value = PyNone
  /\ cp_field_type = ""
  /\ cp_return = [raised |-> FALSE, matched |-> FALSE]
  /\ cp_pc = "off"

\* the characters of a generated argument
ValueChars == {"a", "7", ".", "-"}

\* texts that pass the lengths the decimal pattern allows
LongValues ==
  { <<"1", "2", "3", "4", "5", "6", "7", "8", "9", "0">>,
    <<"1", "2", "3", "4", "5", "6", "7", "8", "9", "0", "1">>,
    <<"1", ".", "1", "2", "3", "4", "5", "6", "7", "8", "9", "0">>,
    <<"1", ".", "1", "2", "3", "4", "5", "6", "7", "8", "9", "0", "1">> }

\* the arguments of a call of check_pattern
cp_Init ==
  /\ cp_value \in
       {PyStr(t) : t \in Texts(ValueChars, MaxValueLen) \cup LongValues}
         \cup {PyNone, PyInt(<<"0">>), PyInt(<<"7">>),
               PyFloat(<<"1", ".", "5">>)}
  /\ cp_field_type \in {"alpha_numeric", "numeric", "decimal", "date", ""}
  /\ cp_return = [raised |-> FALSE, matched |-> FALSE]
  /\ cp_pc = "call"

\* a call that returns
check_pattern_returns ==
  /\ UNCHANGED <<vnVars, svVars, fvVars>>
  /\ cp_pc = "call"
  /\ ~check_pattern(cp_value, cp_field_type).raised
  /\ cp_return' = check_pattern(cp_value, cp_field_type)
  /\ cp_pc' = "returned"
  /\ UNCHANGED <<cp_value, cp_field_type>>

\* a call that raises TypeError
check_pattern_raises ==
  /\ UNCHANGED <<vnVars, svVars, fvVars>>
  /\ cp_pc = "call"
  /\ check_pattern(cp_value, cp_field_type).raised
  /\ cp_return' = check_pattern(cp_value, cp_field_type)
  /\ cp_pc' = "raised"
  /\ UNCHANGED <<cp_value, cp_field_type>>

cp_Next ==
  \/ check_pattern_returns
  \/ check_pattern_raises

(* --------------------------- specifications --------------------------- *)

StandaloneInit == vn_Init /\ sv_off /\ fv_off /\ cp_off

\* validator.new.py run as a script
SpecStandalone == StandaloneInit /\ [][vn_Next]_vars

StructuralInit == sv_Init /\ vn_off /\ fv_off /\ cp_off

\* one call of validate_csv_against_table
SpecStructural == StructuralInit /\ [][sv_Next]_vars

PipelineInit == fv_Init /\ vn_off /\ sv_off /\ cp_off

\* one call of insert_valid_records
SpecPipeline == PipelineInit /\ [][fv_Next]_vars

CheckPatternInit == cp_Init /\ vn_off /\ sv_off /\ fv_off

\* one call of check_pattern
SpecCheckPattern == CheckPatternInit /\ [][cp_Next]_vars

ColumnsInit == StandaloneInit \/ StructuralInit

ColumnsNext == vn_Next \/ sv_Next

\* either validator that compares a header with the schema's columns
SpecColumns == ColumnsInit /\ [][ColumnsNext]_vars

(* ------------------------------ claims -------------------------------- *)

\* how often x occurs in the sequence
Count(seq, x) == Cardinality({k \in 1..Len(seq) : seq[k] = x})

\* ---- C1 ----

\* a rule of validate_data rejects the value: the required, size, zero and
\* digit rules as coded, the pattern rule on the value's text
FailsRule(field, field_rule, value) ==
  \/ required_fails(value, field_rule)
  \/ size_fails(value, field_rule)
  \/ ~pattern_matches(str(value), field_rule.type)
  \/ zero_fails(value, field_rule)
  \/ decimal_errors(field, value, field_rule) # <<>>

SomeRowFails ==
  \E n \in 1..Len(data.rows), k \in 1..Len(validation_rules.fields) :
    /\ validation_rules.fields[k][1] \in set(data.columns)
    /\ FailsRule(validation_rules.fields[k][1], validation_rules.fields[k][2],
                 row_value(data.rows[n], validation_rules.fields[k][1]))

\* C1: once insert_valid_records has ended, a dataset with a row that fails a
\* rule was not written and the non-empty error list was returned; a dataset
\* with no such row was written exactly once, all its rows, and the success
\* string carries its number of rows.
C1_AllOrNothingInsert ==
  fv_pc \in {"returned", "raised"} =>
    IF SomeRowFails
    THEN /\ fv_writes = 0
         /\ fv_pc = "returned"
         /\ fv_result.kind = "errors"
         /\ fv_result.errors # <<>>
    ELSE /\ fv_writes = 1
         /\ snowpark_table = data.rows
         /\ fv_pc = "returned"
         /\ fv_result = [kind |-> "success", errors |-> <<>>,
                         inserted |-> Len(data.rows)]

\* ---- C2 ----

\* C2: when main is done, every required field of the header that a record
\* omits, or holds as blank text, has exactly one "is required but missing"
\* error for that row and no type error.
C2_RequiredDetected ==
  vn_pc = "done" =>
    \A i \in 1..Len(table_records) :
      \A f \in set(headers) \cap DOMAIN field_definitions :
        LET record == table_records[i]
            omitted == f \notin Keys(record)
            blank == \E k \in 1..Len(record) :
                       record[k][1] = f /\ strip(record[k][2]) = <<>>
        IN  field_definitions[f].required /\ (omitted \/ blank) =>
              /\ Count(vn_errors, Err(i, f, "required")) = 1
              /\ \A kind \in {"alphanumeric", "numeric", "decimal"} :
                   Count(vn_errors, Err(i, f, kind)) = 0

\* ---- C3 ----

\* the CSV file has a NULL in the column
HasNull(column) ==
  \E n \in 1..Len(csv_file) : col(column, csv_file[n]).null

\* C3: validate_csv_against_table returns True only when no required column
\* of the template, of whatever type, has a NULL in any row of the CSV file.
C3_RequiredNulls ==
  sv_pc = "returned" /\ sv_result.returned =>
    \A column \in set(expected_columns) :
      template.fields[column].required => ~HasNull(column)

\* ---- C6 ----

\* C6: with duplicate_field_check, validate_csv_against_table returns True
\* only when no two rows of the CSV file are equal on every column, NULLs
\* included.
C6_DuplicateRows ==
  sv_pc = "returned" /\ sv_result.returned /\ template.duplicate_field_check =>
    \A i, j \in 1..Len(csv_file) : i # j => csv_file[i] # csv_file[j]

\* ---- C8 ----

KnownTypes == {"alpha_numeric", "numeric", "decimal"}

\* C8 as stated: check_pattern returns False for every str when field_type
\* is none of the three types.
C8_UnknownTypeMatchesNothing ==
  cp_pc = "returned" /\ cp_value.kind = "str"
    /\ cp_field_type \notin KnownTypes
  => ~cp_return.matched

\* ---- C9 ----

\* C9: once validate_data has ended on a dataset in which a numeric field of
\* the rules holds the number zero, it has returned, and its list holds the
\* zero error of that field.
C9_ZeroCheck ==
  fv_pc \notin {"off", "call"} =>
    \A n \in 1..Len(data.rows), k \in 1..Len(validation_rules.fields) :
      LET field == validation_rules.fields[k][1]
          field_rule == validation_rules.fields[k][2]
      IN  /\ field \in set(data.columns)
          /\ field_rule.type = "numeric"
          /\ equals_zero(row_value(data.rows[n], field))
          => /\ fv_pc # "raised"
             /\ FieldErr(field, "zero") \in set(validation_errors)

\* ---- C4 ----

MismatchMessage == "do not match expected columns"

\* the standalone half: a header whose set differs from the columns' ends
\* the script with ValueError before a record is built or validated, and
\* an equal set never raises
C4_Standalone ==
  vn_pc \notin {"off", "load"} =>
    IF set(headers) # set(columns)
    THEN /\ vn_pc = "raised"
         /\ table_records = <<>>
         /\ vn_row_idx = 0
         /\ vn_errors = <<>>
         /\ vn_stdout = <<>>
    ELSE vn_pc # "raised"

\* C4 as stated: in both validators a column set that differs from the
\* schema's stops the run before any field check; the structural validator
\* then returns False.
C4_MismatchReturnsFalse ==
  /\ C4_Standalone
  /\ sv_pc \notin {"off", "call"} =>
       IF set(expected_columns) # set(csv_columns)
       THEN /\ sv_column_idx = 0
            /\ sv_pc = "returned"
            /\ sv_result = [returned |-> FALSE, message |-> MismatchMessage]
       ELSE sv_result.message # MismatchMessage

\* C4 as amended: in both validators a column set that differs from the
\* schema's stops the run before any field check; the structural validator
\* then returns False, or raises ValueError when the schema's columns list
\* is empty; equal sets, in any order, never give the mismatch outcome.
C4_MismatchShortCircuits ==
  /\ C4_Standalone
  /\ sv_pc \notin {"off", "call"} =>
       IF set(expected_columns) # set(csv_columns)
       THEN /\ sv_column_idx = 0
            /\ IF expected_columns = <<>>
               THEN sv_pc = "raised"
               ELSE /\ sv_pc = "returned"
                    /\ sv_result =
                         [returned |-> FALSE, message |-> MismatchMessage]
       ELSE sv_result.message # MismatchMessage /\ sv_pc # "raised"

C4_Witness ==
  /\ sv_pc = "returned"
  /\ set(expected_columns) # set(csv_columns)
  /\ csv_file # <<>>
  /\ \E n \in 1..Len(csv_file) : csv_file[n][1].null

\* ---- C5 ----

\* the rows that repeat an earlier row
DuplicateRows(records) ==
  {i \in 1..Len(records) : \E j \in 1..(i - 1) : records[j] = records[i]}

\* the duplicate messages main holds
Reported == SelectSeq(vn_errors, LAMBDA e : e.kind = "duplicate")

\* C5: the rows check_duplicates reports are the rows that repeat an earlier
\* row's ordered field/value pairs, each once, in increasing order; on the
\* fixture that is row 2 alone.
C5_DuplicatesReported ==
  vn_pc \in {"print", "done"} /\ json_data.duplicate_field_check =>
    /\ {Reported[k].row : k \in 1..Len(Reported)} = DuplicateRows(table_records)
    /\ Len(Reported) = Cardinality(DuplicateRows(table_records))
    /\ \A k, l \in 1..Len(Reported) : k < l => Reported[k].row < Reported[l].row
    /\ table_lines = FixtureLines => Reported = <<Err(2, <<>>, "duplicate")>>

C5_Witness ==
  /\ vn_pc = "done"
  /\ json_data.duplicate_field_check
  /\ Len(table_records) = 3
  /\ table_records[1] = table_records[3]
  /\ table_records[1] # table_records[2]
  /\ Len(Reported) = 1

\* ---- C7 ----

\* min <= value <= max for the number the text converts to
Inside(x, range) ==
  /\ x.kind = "finite"
  /\ LET v == IF x.neg THEN 0 - x.num ELSE x.num
     IN  range[1] * x.den <= v /\ v <= range[2] * x.den

\* the range errors of a row's field: <<out of range, not a number>>
RangeErrors(i, f) ==
  <<Count(vn_errors, Err(i, f, "out_of_range")),
    Count(vn_errors, Err(i, f, "not_a_number"))>>

\* C7: for every validated item whose rule has a range and whose trimmed
\* value is not empty: no range error when the value is inside the inclusive
\* bounds, one out-of-range error when it converts and is outside, and the
\* not-a-number error alone when it does not convert; 1000, 1000.01 and abc
\* against [0, 1000] give none, out-of-range and not-a-number.
C7_RangeCheck ==
  /\ \A i \in 1..vn_row_idx : \A k \in 1..Len(table_records[i]) :
       LET f == table_records[i][k][1]
           value == strip(table_records[i][k][2])
       IN  f \in DOMAIN field_definitions
             /\ field_definitions[f].range # <<>> /\ value # <<>>
           => RangeErrors(i, f) =
                IF ~float(value).ok THEN <<0, 1>>
                ELSE IF Inside(float(value), field_definitions[f].range)
                THEN <<0, 0>>
                ELSE <<1, 0>>
  /\ table_lines = RangeLines /\ vn_row_idx >= 3 =>
       /\ RangeErrors(1, FIELD_DEC1) = <<0, 0>>
       /\ RangeErrors(2, FIELD_DEC1) = <<1, 0>>
       /\ RangeErrors(3, FIELD_DEC1) = <<0, 1>>

C7_Witness ==
  /\ vn_pc = "done"
  /\ table_lines = RangeLines
  /\ RangeErrors(2, FIELD_DEC1) = <<1, 0>>

\* ---- C10 ----

RECURSIVE RecordErrors(_)
RecordErrors(n) ==
  IF n = 0 THEN <<>>
  ELSE RecordErrors(n - 1) \o validate_record(table_records[n], n)

SuccessLine == Line("Table data is valid according to JSON specifications.")

ErrorsHeader == Line("Validation Errors:")

\* C10: main's list is the record errors of row 1, row 2, ... and then the
\* duplicate messages, which are there only when duplicate_field_check is
\* true; main prints the success line alone when the list is empty, and
\* otherwise the header and then the list, each error once, in order.
C10_Report ==
  /\ vn_pc \in {"print", "done"} =>
       /\ vn_errors =
            RecordErrors(Len(table_records))
            \o (IF json_data.duplicate_field_check
                THEN check_duplicates(table_records) ELSE <<>>)
       /\ \A k, l \in 1..Len(vn_errors) :
            k < l =>
              /\ vn_errors[k].kind = "duplicate" =>
                   vn_errors[l].kind = "duplicate"
              /\ vn_errors[l].kind # "duplicate" =>
                   vn_errors[k].row <= vn_errors[l].row
       /\ ~json_data.duplicate_field_check => Reported = <<>>
  /\ vn_pc = "done" =>
       vn_stdout = IF vn_errors = <<>> THEN <<SuccessLine>>
                   ELSE <<ErrorsHeader>> \o vn_errors
  /\ vn_pc # "done" => vn_stdout = <<>>
  /\ ~(SuccessLine \in set(vn_stdout) /\ ErrorsHeader \in set(vn_stdout))

C10_Witness ==
  /\ vn_pc = "done"
  /\ Len(vn_stdout) >= 4
  /\ Reported # <<>>
  /\ \E k, l \in 1..Len(vn_errors) :
       /\ vn_errors[k].kind # "duplicate" /\ vn_errors[l].kind # "duplicate"
       /\ vn_errors[k].row < vn_errors[l].row
====
